---- MODULE Spec2Model ----
(***************************************************************************)
(* Semantic cache demo: the cache decision engine of agents/entrypoint.py  *)
(* (invoke and the functions it calls) and the batched metrics publisher   *)
(* of agents/metrics_publisher.py; the module-level state the request     *)
(* threads share (the token accumulator of agents/order_tracking_agent.py  *)
(* and the lazily created store client) and the float32 vector codec.      *)
(*                                                                         *)
(* Units.  Similarities and distances are fixed-point hundredths (0.85 is  *)
(* 85).  Costs are micro-dollars: the code's  tokens * rate / 1_000_000    *)
(* dollars is  tokens * rate  micro-dollars.  Wall-clock latency is not    *)
(* modelled.                                                               *)
(***************************************************************************)
EXTENDS Integers, Sequences, FiniteSets, TLC

(***************************************************************************)
(* Bounds of the model.                                                    *)
(***************************************************************************)
NumRequests == 2            \* executions of invoke(), all may overlap
NumProducers == 2           \* request threads that call add_metric
MaxCalls == 3               \* calls of add_metric in one run
MaxSinceFlush == 11         \* seconds the clock runs past last_flush
SizeExtraCalls == 1         \* add_metric calls after the FLUSH_SIZE-th
MaxDim == 2                 \* components of a vector given to the codec

(***************************************************************************)
(* Program constants.                                                      *)
(***************************************************************************)
SIMILARITY_THRESHOLD == 85          \* 0.85
CLAUDE_SONNET_4_INPUT_COST == 3     \* dollars per 1M input tokens
CLAUDE_SONNET_4_OUTPUT_COST == 15   \* dollars per 1M output tokens
KEY_PREFIX_VECTOR == "request:vector:"
KEY_PREFIX_REQUEST_RESPONSE == "rr:"
FLUSH_SIZE == 20                    \* add_metric: len(buffer) >= 20
FLUSH_INTERVAL == 10                \* add_metric: seconds since last_flush
BATCH_LIMIT == 20                   \* _flush_async: at most 20 per batch
MAX_WORKERS == 2                    \* ThreadPoolExecutor(max_workers=2)
DEFAULT_MAX_BUFFER_SIZE == 100      \* __init__: max_buffer_size: int = 100

Requests == 1 .. NumRequests
\* uuid4 is called at most once per execution of invoke()
Uuids == 1 .. NumRequests
None == 0                   \* Python's None where an identifier is expected
EmptyHash == << >>          \* a key that holds no hash: hgetall returns {}

(***************************************************************************)
(* The external collaborators' inputs and answers.                         *)
(***************************************************************************)
Texts == {"Where is order 42?", "Where is my order 42?", "Hi!"}
\* What one responder call can return: (response text, inputTokens,
\* outputTokens); the counts are (0, 0) when the response carries no metrics.
AgentAnswers == {<<"It shipped.", 0, 0>>, <<"It is delayed.", 40, 9>>}

\* The embedding model: a deterministic map from text to a vector.  Vectors
\* are one-component here and lie on a line, so that the distances between
\* the three texts are 0.15 (similarity exactly at the threshold), 0.16
\* (just below it) and 0.01.
EmbeddingOf(text) ==
    CASE text = "Where is order 42?"    -> <<0>>
      [] text = "Where is my order 42?" -> <<15>>
      [] OTHER                          -> <<16>>

Abs(x) == IF x < 0 THEN -x ELSE x

\* The index's distance metric between two decoded vectors.
Distance(u, v) == Abs(u[1] - v[1])

(***************************************************************************)
(* Pure functions of entrypoint.py.                                        *)
(***************************************************************************)
\* struct.pack(f"{len(embedding)}f", *embedding): four bytes per component,
\* least significant byte first.  The components are the fixed-point values
\* above; the IEEE-754 bit layout inside the four bytes is not modelled.
RECURSIVE struct_pack(_)
struct_pack(embedding) ==
    IF embedding = << >> THEN << >>
    ELSE LET c == Head(embedding)
         IN  << c % 256, (c \div 256) % 256, (c \div 65536) % 256,
                (c \div 16777216) % 256 >> \o struct_pack(Tail(embedding))

\* The index's decoding of a FLOAT32 vector field.
RECURSIVE struct_unpack(_)
struct_unpack(bytes) ==
    IF bytes = << >> THEN << >>
    ELSE << bytes[1] + 256 * bytes[2] + 65536 * bytes[3] + 16777216 * bytes[4] >>
         \o struct_unpack(SubSeq(bytes, 5, Len(bytes)))

\* str(n) for a non-negative integer: its decimal digits.
RECURSIVE str(_)
str(n) == IF n < 10 THEN <<n>> ELSE str(n \div 10) \o <<n % 10>>

\* int(s) for a string of decimal digits.
RECURSIVE int(_)
int(s) == IF Len(s) = 1 THEN s[1]
          ELSE 10 * int(SubSeq(s, 1, Len(s) - 1)) + s[Len(s)]

estimate_tokens(text) == Len(text) \div 4

\* The three places that price a pair of token counts.
CostStored(input_tokens, output_tokens) ==
    input_tokens * CLAUDE_SONNET_4_INPUT_COST
        + output_tokens * CLAUDE_SONNET_4_OUTPUT_COST

\* The hit path pricing both counts at the output rate.
CostAvoided_outrate(input_tokens, output_tokens) ==
    input_tokens * CLAUDE_SONNET_4_OUTPUT_COST
        + output_tokens * CLAUDE_SONNET_4_OUTPUT_COST

CostAvoided(input_tokens, output_tokens) ==
    input_tokens * CLAUDE_SONNET_4_INPUT_COST
        + output_tokens * CLAUDE_SONNET_4_OUTPUT_COST

CostPaid(input_tokens, output_tokens) ==
    input_tokens * CLAUDE_SONNET_4_INPUT_COST
        + output_tokens * CLAUDE_SONNET_4_OUTPUT_COST

VARIABLES
    frame,          \* frame[r]: the locals of execution r of invoke()
    obs,            \* obs[r]: what the collaborators saw of execution r
    vectorStore,    \* the hashes under KEY_PREFIX_VECTOR, by identifier
    rrStore,        \* the hashes under KEY_PREFIX_REQUEST_RESPONSE
    next_uuid       \* the next identifier uuid4 hands out

engineVars == <<frame, obs, vectorStore, rrStore, next_uuid>>

\* AgentCoreMetricsPublisher
VARIABLES
    max_buffer_size,    \* the constructor's argument, deque(maxlen=...)
    metrics_buffer,     \* the deque of buffered events, oldest first
    buffer_lock,        \* the set of threads holding the Lock (at most one)
    since_flush,        \* time.time() - self.last_flush, the only use the
                        \* code makes of the clock and of last_flush
    thr,                \* thr[t]: where thread t is, and its local batch
    executor,           \* batches submitted to the pool, not yet started
    worker,             \* worker[w]: a pool thread running _publish_batch
    tasks,              \* async tasks registered with the app, not completed
    next_task,          \* the next task id add_async_task returns
    sink,               \* sink[e]: the calls of put_metric_data that
                        \* carried event e
    largest_call,       \* the most data points one sink call carried
    raised,             \* the events of the latest sink call if it raised
    accepted,           \* events appended so far; events are named 1, 2, ..
    dropped             \* events the deque discarded on overflow

bufVars == <<metrics_buffer, accepted, dropped>>
poolVars == <<executor, worker, tasks, next_task>>
sinkVars == <<sink, largest_call, raised>>

pubVars == <<max_buffer_size, buffer_lock, since_flush, thr, bufVars,
             poolVars, sinkVars>>

\* Module-level state of the process outside the two components, and the
\* vector codec's values.
VARIABLES
    accumulated_tokens, \* order_tracking_agent._accumulated_tokens, as the
                        \* pair (input, output)
    agent_run,          \* agent_run[r]: the locals of execution r of
                        \* invoke_agent()
    cache_client,       \* entrypoint._cache_client: None or a client
    created,            \* calls of GlideClient.create so far; the clients
                        \* are named 1, 2, ..
    getter,             \* getter[r]: the locals of thread r's call of
                        \* get_cache_client()
    codec               \* a vector, its encoding and the decoding of that

moduleVars == <<accumulated_tokens, agent_run, cache_client, created, getter,
                codec>>

vars == <<engineVars, pubVars, moduleVars>>

(***************************************************************************)
(* The state after the module is loaded: no request in flight, an empty    *)
(* store.                                                                  *)
(***************************************************************************)
InitFrame ==
    [pc |-> "idle", request_text |-> "", embedding |-> << >>,
     cache_request_id |-> None, similarity |-> 0, cached |-> EmptyHash,
     response_text |-> "", input_tokens |-> 0, output_tokens |-> 0,
     request_id |-> None, cost |-> 0, result |-> EmptyHash]

InitObs ==
    [fault |-> "none", embedCalls |-> 0, agentCalls |-> 0, agentArg |-> "",
     agentAnswer |-> << >>,
     fetched |-> "no", written |-> << >>, metricData |-> << >>,
     sinkCalls |-> 0]

IdleAgentRun ==
    [pc |-> "idle", usage |-> <<0, 0>>, tool |-> << >>, total |-> <<0, 0>>]

IdleGetter == [pc |-> "idle", client |-> None]

CodecOf(v) == [pc |-> "vector", v |-> v, bytes |-> << >>, decoded |-> << >>]

EngineLoaded ==
    /\ frame = [r \in Requests |-> InitFrame]
    /\ obs = [r \in Requests |-> InitObs]
    /\ vectorStore = [id \in Uuids |-> EmptyHash]
    /\ rrStore = [id \in Uuids |-> EmptyHash]
    /\ next_uuid = 1
    /\ accumulated_tokens = <<0, 0>>
    /\ agent_run = [r \in Requests |-> IdleAgentRun]
    /\ cache_client = None
    /\ created = 0
    /\ getter = [r \in Requests |-> IdleGetter]

EngineInit == EngineLoaded /\ codec = CodecOf(<< >>)


\* An exception leaves invoke(): the call that raised is recorded, the
\* execution ends without a result and its locals are gone.
Raise(r, site) ==
    /\ frame' = [frame EXCEPT ![r] = [InitFrame EXCEPT !.pc = "raised"]]
    /\ obs' = [obs EXCEPT ![r].fault = site]

(***************************************************************************)
(* invoke(), lines 259-264: the request text is read and embedded.         *)
(***************************************************************************)
Start(r) ==
    /\ frame[r].pc = "idle"
    /\ \E text \in Texts :
          frame' = [frame EXCEPT ![r].pc = "embed", ![r].request_text = text]
    /\ UNCHANGED <<obs, vectorStore, rrStore, next_uuid, pubVars, moduleVars>>

GenerateEmbeddingFails(r) ==
    /\ Raise(r, "embed")
    /\ UNCHANGED <<vectorStore, rrStore, next_uuid, pubVars, moduleVars>>

GenerateEmbedding(r) ==
    /\ frame[r].pc = "embed"
    /\ \/ /\ frame' = [frame EXCEPT
                 ![r].pc = "search",
                 ![r].embedding = EmbeddingOf(frame[r].request_text)]
          /\ obs' = [obs EXCEPT ![r].embedCalls = @ + 1]
          /\ UNCHANGED <<vectorStore, rrStore, next_uuid, pubVars, moduleVars>>
       \/ GenerateEmbeddingFails(r)

(***************************************************************************)
(* search_cache and the test of line 271.                                  *)
(***************************************************************************)
\* The identifiers of the indexed documents: the index is built over the
\* hashes under KEY_PREFIX_VECTOR.
Indexed == {id \in Uuids : vectorStore[id] # EmptyHash}

\* What search_cache can return for a query: (None, 0.0) when the index
\* reports no document, otherwise the request_id field of a nearest
\* document and 1.0 - its distance.
SearchCacheResults(embedding) ==
    LET query == struct_unpack(struct_pack(embedding))
        Score(id) == Distance(query, struct_unpack(vectorStore[id].embedding))
        Nearest == {id \in Indexed : \A j \in Indexed : Score(id) <= Score(j)}
    IN  IF Indexed = {} THEN {<<None, 0>>}
        ELSE {<<vectorStore[id].request_id, 100 - Score(id)>> : id \in Nearest}

ThresholdMet_strict(cache_request_id, similarity) ==
    cache_request_id # None /\ similarity > SIMILARITY_THRESHOLD

ThresholdMet(cache_request_id, similarity) ==
    cache_request_id # None /\ similarity >= SIMILARITY_THRESHOLD

SearchCacheFails_swallowed(r) ==
    /\ frame' = [frame EXCEPT ![r].pc = "agent"]
    /\ obs' = [obs EXCEPT ![r].fault = "search"]
    /\ UNCHANGED <<vectorStore, rrStore, next_uuid, pubVars, moduleVars>>

SearchCacheFails(r) ==
    /\ Raise(r, "search")
    /\ UNCHANGED <<vectorStore, rrStore, next_uuid, pubVars, moduleVars>>

SearchCache(r) ==
    /\ frame[r].pc = "search"
    /\ \/ /\ \E res \in SearchCacheResults(frame[r].embedding) :
                frame' = [frame EXCEPT
                    ![r].cache_request_id = res[1],
                    ![r].similarity = res[2],
                    ![r].pc = IF ThresholdMet(res[1], res[2])
                              THEN "fetch" ELSE "agent"]
          /\ UNCHANGED <<obs, vectorStore, rrStore, next_uuid, pubVars, moduleVars>>
       \/ SearchCacheFails(r)

(***************************************************************************)
(* get_cached_response and the test of line 273.                           *)
(***************************************************************************)
\* get_cached_response answering for a key that holds nothing with a record
\* of defaults.
get_cached_response_defaults(request_id) ==
    IF rrStore[request_id] # EmptyHash THEN rrStore[request_id]
    ELSE [request_text |-> "", response_text |-> "", tokens_input |-> <<0>>,
          tokens_output |-> <<0>>, cost_dollars |-> <<0>>]

\* hgetall of the rr key, decoded; None (here the empty hash) when the key
\* holds nothing.
get_cached_response(request_id) == rrStore[request_id]

AfterFetch_raise(cached) ==
    IF cached # EmptyHash THEN "emit_hit" ELSE "raised"

\* "if cached:" - a record that is absent falls through to the miss path.
AfterFetch(cached) ==
    IF cached # EmptyHash THEN "emit_hit" ELSE "agent"

GetCachedResponseFails(r) ==
    /\ Raise(r, "fetch")
    /\ UNCHANGED <<vectorStore, rrStore, next_uuid, pubVars, moduleVars>>

GetCachedResponse(r) ==
    /\ frame[r].pc = "fetch"
    /\ \/ /\ LET cached == get_cached_response(frame[r].cache_request_id)
             IN  /\ frame' = [frame EXCEPT ![r].cached = cached,
                                           ![r].pc = AfterFetch(cached)]
                 /\ obs' = [obs EXCEPT ![r].fetched =
                               IF cached # EmptyHash THEN "found" ELSE "absent"]
          /\ UNCHANGED <<vectorStore, rrStore, next_uuid, pubVars, moduleVars>>
       \/ GetCachedResponseFails(r)

(***************************************************************************)
(* emit_metrics: the data points of one request and the sink call.         *)
(***************************************************************************)
Metric(name, value, unit, dimensions) ==
    [MetricName |-> name, Value |-> value, Unit |-> unit,
     Dimensions |-> dimensions]

\* The list without the cost data points.
MetricData_nocost(cached, similarity, cost_avoided, cost_paid) ==
    << Metric("Latency", 0, "Milliseconds",
              << [Name |-> "CacheStatus",
                  Value |-> IF cached THEN "Hit" ELSE "Miss"] >>),
       Metric("CacheHit", IF cached THEN 1 ELSE 0, "Count", << >>),
       Metric("SimilarityScore", similarity, "None", << >>) >>

\* The list with CostSavings on every hit, whatever the cost avoided, and
\* CostPaid whenever the cost paid is positive.
MetricData_anypath(cached, similarity, cost_avoided, cost_paid) ==
    << Metric("Latency", 0, "Milliseconds",
              << [Name |-> "CacheStatus",
                  Value |-> IF cached THEN "Hit" ELSE "Miss"] >>),
       Metric("CacheHit", IF cached THEN 1 ELSE 0, "Count", << >>),
       Metric("SimilarityScore", similarity, "None", << >>) >>
    \o (IF cost_avoided >= 0 /\ cached
        THEN << Metric("CostSavings", cost_avoided, "None", << >>) >>
        ELSE << >>)
    \o (IF cost_paid > 0
        THEN << Metric("CostPaid", cost_paid, "None", << >>) >>
        ELSE << >>)

\* The list handed to cloudwatch.put_metric_data.  The Latency value is
\* wall-clock time and is carried as 0.
MetricData(cached, similarity, cost_avoided, cost_paid) ==
    << Metric("Latency", 0, "Milliseconds",
              << [Name |-> "CacheStatus",
                  Value |-> IF cached THEN "Hit" ELSE "Miss"] >>),
       Metric("CacheHit", IF cached THEN 1 ELSE 0, "Count", << >>),
       Metric("SimilarityScore", similarity, "None", << >>) >>
    \o (IF cached /\ cost_avoided > 0
        THEN << Metric("CostSavings", cost_avoided, "None", << >>) >>
        ELSE << >>)
    \o (IF ~cached /\ cost_paid > 0
        THEN << Metric("CostPaid", cost_paid, "None", << >>) >>
        ELSE << >>)

\* emit_metrics letting the exception of the sink call through.
emit_metrics_raises_uncaught(sink_raised) == sink_raised

\* emit_metrics, lines 225-230: whether an exception leaves emit_metrics
\* when put_metric_data returned or raised.  "except Exception" catches and
\* logs it, and emit_metrics returns as after a successful call.
emit_metrics_raises(sink_raised) == FALSE

\* put_metric_data is called once, synchronously, with the data points of
\* the request.
EmitMetrics(r, cached, similarity, cost_avoided, cost_paid) ==
    obs' = [obs EXCEPT
        ![r].metricData =
            MetricData(cached, similarity, cost_avoided, cost_paid),
        ![r].sinkCalls = @ + 1]

(***************************************************************************)
(* The hit path, lines 274-300.                                            *)
(***************************************************************************)
HitResult_request(r) ==
    [response |-> frame[r].request_text, cached |-> TRUE,
     similarity |-> frame[r].similarity]

HitResult(r) ==
    [response |-> frame[r].cached.response_text, cached |-> TRUE,
     similarity |-> frame[r].similarity]

\* Lines 274-300.  The sink call returns or raises; emit_metrics is called
\* inside try/except (lines 282-285), so the hit result is returned after
\* either outcome.
EmitHit(r) ==
    /\ frame[r].pc = "emit_hit"
    /\ LET input_tokens == estimate_tokens(frame[r].request_text)
           output_tokens == int(frame[r].cached.tokens_output)
           cost_avoided == CostAvoided(input_tokens, output_tokens)
       IN  /\ EmitMetrics(r, TRUE, frame[r].similarity, cost_avoided, 0)
           /\ frame' = [frame EXCEPT ![r].pc = "done",
                                     ![r].cost = cost_avoided,
                                     ![r].result = HitResult(r)]
    /\ UNCHANGED <<vectorStore, rrStore, next_uuid, pubVars, moduleVars>>

(***************************************************************************)
(* The miss path, lines 302-326.                                           *)
(***************************************************************************)
InvokeAgentFails_fallback(r) ==
    /\ frame' = [frame EXCEPT ![r].pc = "hset_vector"]
    /\ obs' = [obs EXCEPT ![r].fault = "agent"]
    /\ UNCHANGED <<vectorStore, rrStore, next_uuid, pubVars, moduleVars>>

InvokeAgentFails(r) ==
    /\ Raise(r, "agent")
    /\ UNCHANGED <<vectorStore, rrStore, next_uuid, pubVars, moduleVars>>

\* invoke_agent(request_text) returns the answer and its token counts.
InvokeAgent(r) ==
    /\ frame[r].pc = "agent"
    /\ \/ /\ \E answer \in AgentAnswers :
                /\ frame' = [frame EXCEPT
                                ![r].pc = "hset_vector",
                                ![r].response_text = answer[1],
                                ![r].input_tokens = answer[2],
                                ![r].output_tokens = answer[3]]
                /\ obs' = [obs EXCEPT
                                ![r].agentCalls = @ + 1,
                                ![r].agentArg = frame[r].request_text,
                                ![r].agentAnswer = answer]
          /\ UNCHANGED <<vectorStore, rrStore, next_uuid, pubVars, moduleVars>>
       \/ InvokeAgentFails(r)

\* The hash written under the vector key (the timestamp is left out).
VectorFields_reembed(r, request_id) ==
    [request_id |-> request_id,
     embedding |-> struct_pack(EmbeddingOf(frame[r].response_text))]

VectorFields(r, request_id) ==
    [request_id |-> request_id,
     embedding |-> struct_pack(frame[r].embedding)]

\* The hash written under the rr key (created_at is left out).
RRFields_swapped(r) ==
    [request_text |-> frame[r].request_text,
     response_text |-> frame[r].response_text,
     tokens_input |-> str(frame[r].output_tokens),
     tokens_output |-> str(frame[r].input_tokens),
     cost_dollars |->
         str(CostStored(frame[r].input_tokens, frame[r].output_tokens))]

RRFields(r) ==
    [request_text |-> frame[r].request_text,
     response_text |-> frame[r].response_text,
     tokens_input |-> str(frame[r].input_tokens),
     tokens_output |-> str(frame[r].output_tokens),
     cost_dollars |->
         str(CostStored(frame[r].input_tokens, frame[r].output_tokens))]

\* cache_response, lines 134-150: a fresh identifier, then the first hset.
\* A failing hset writes nothing and its exception leaves invoke().
CacheResponseVector_skipped(r) ==
    /\ frame[r].pc = "hset_vector"
    /\ frame' = [frame EXCEPT ![r].pc = "hset_rr",
                              ![r].request_id = next_uuid]
    /\ next_uuid' = next_uuid + 1
    /\ UNCHANGED <<obs, vectorStore, rrStore, pubVars, moduleVars>>

CacheResponseVector(r) ==
    /\ frame[r].pc = "hset_vector"
    /\ next_uuid' = next_uuid + 1
    /\ \/ /\ frame' = [frame EXCEPT ![r].pc = "hset_rr",
                                    ![r].request_id = next_uuid]
          /\ vectorStore' = [vectorStore EXCEPT
                                ![next_uuid] = VectorFields(r, next_uuid)]
          /\ obs' = [obs EXCEPT ![r].written =
                        Append(@, <<KEY_PREFIX_VECTOR, next_uuid>>)]
          /\ UNCHANGED <<rrStore, pubVars, moduleVars>>
       \/ /\ Raise(r, "hset_vector")
          /\ UNCHANGED <<vectorStore, rrStore, pubVars, moduleVars>>

\* cache_response writing the response under the matched identifier when
\* the search found one.
CacheResponseRR_matched(r) ==
    /\ frame[r].pc = "hset_rr"
    /\ LET key == IF frame[r].cache_request_id # None
                  THEN frame[r].cache_request_id ELSE frame[r].request_id
       IN  /\ frame' = [frame EXCEPT ![r].pc = "emit_miss"]
           /\ rrStore' = [rrStore EXCEPT ![key] = RRFields(r)]
           /\ obs' = [obs EXCEPT ![r].written =
                         Append(@, <<KEY_PREFIX_REQUEST_RESPONSE, key>>)]
    /\ UNCHANGED <<vectorStore, next_uuid, pubVars, moduleVars>>

\* cache_response, lines 152-166: the second hset.
CacheResponseRR(r) ==
    /\ frame[r].pc = "hset_rr"
    /\ \/ /\ frame' = [frame EXCEPT ![r].pc = "emit_miss"]
          /\ rrStore' = [rrStore EXCEPT ![frame[r].request_id] = RRFields(r)]
          /\ obs' = [obs EXCEPT ![r].written =
                        Append(@, <<KEY_PREFIX_REQUEST_RESPONSE,
                                    frame[r].request_id>>)]
          /\ UNCHANGED <<vectorStore, next_uuid, pubVars, moduleVars>>
       \/ /\ Raise(r, "hset_rr")
          /\ UNCHANGED <<vectorStore, rrStore, next_uuid, pubVars, moduleVars>>

\* The miss result reporting no similarity.
MissResult_nosimilarity(r) ==
    [response |-> frame[r].response_text, cached |-> FALSE, similarity |-> 0]

MissResult(r) ==
    [response |-> frame[r].response_text, cached |-> FALSE,
     similarity |-> frame[r].similarity]

\* Lines 307-326.  The sink call inside emit_metrics returns or raises;
\* line 313 is not inside a try, so an exception that left emit_metrics
\* would leave invoke().
EmitMiss(r) ==
    /\ frame[r].pc = "emit_miss"
    /\ \E sink_raised \in BOOLEAN :
          IF emit_metrics_raises(sink_raised)
          THEN Raise(r, "put_metric_data")
          ELSE LET cost_paid == CostPaid(frame[r].input_tokens,
                                        frame[r].output_tokens)
               IN  /\ EmitMetrics(r, FALSE, frame[r].similarity, 0, cost_paid)
                   /\ frame' = [frame EXCEPT ![r].pc = "done",
                                             ![r].cost = cost_paid,
                                             ![r].result = MissResult(r)]
    /\ UNCHANGED <<vectorStore, rrStore, next_uuid, pubVars, moduleVars>>

Invoke(r) ==
    \/ Start(r)
    \/ GenerateEmbedding(r)
    \/ SearchCache(r)
    \/ GetCachedResponse(r)
    \/ EmitHit(r)
    \/ InvokeAgent(r)
    \/ CacheResponseVector(r)
    \/ CacheResponseRR(r)
    \/ EmitMiss(r)

EngineNext == \E r \in Requests : Invoke(r)

(***************************************************************************)
(* AgentCoreMetricsPublisher.  Thread 0 is the caller of flush_remaining   *)
(* (shutdown); threads 1 .. NumProducers are request threads calling       *)
(* add_metric; the pool's workers run _publish_batch.                      *)
(***************************************************************************)
Shutdown == 0
Producers == 1 .. NumProducers
Threads == {Shutdown} \cup Producers
Workers == 1 .. MAX_WORKERS
\* The capacities a publisher is constructed with in the model.
Capacities == {2, 3}
\* The clock is read after exactly the interval, or after more than it.
TickSteps == {FLUSH_INTERVAL, FLUSH_INTERVAL + 1}

Min(a, b) == IF a < b THEN a ELSE b

Elems(seq) == {seq[i] : i \in 1 .. Len(seq)}

IdleThread == [pc |-> "idle", batch |-> << >>]
IdleWorker == [pc |-> "idle", batch |-> << >>, task_id |-> 0]

\* __init__(app, cloudwatch_client, namespace, max_buffer_size), in a run
\* that makes at most `calls` calls of add_metric.
ConstructedFor(capacity, calls) ==
    /\ max_buffer_size = capacity
    /\ metrics_buffer = << >>
    /\ buffer_lock = {}
    /\ since_flush = 0
    /\ thr = [t \in Threads |-> IdleThread]
    /\ executor = << >>
    /\ worker = [w \in Workers |-> IdleWorker]
    /\ tasks = {}
    /\ next_task = 1
    /\ sink = [e \in 1 .. calls |-> 0]
    /\ largest_call = 0
    /\ raised = {}
    /\ accepted = 0
    /\ dropped = {}

Constructed(capacity) == ConstructedFor(capacity, MaxCalls)

\* The number of add_metric calls of the run: one sink counter per event.
Workload == Cardinality(DOMAIN sink)

\* deque(maxlen=max_buffer_size).append(x): a full deque discards the item
\* at the other end, its oldest.
deque_append_dropnew(buffer, x, maxlen) ==
    IF Len(buffer) >= maxlen THEN buffer ELSE Append(buffer, x)

deque_append(buffer, x, maxlen) ==
    IF maxlen = 0 THEN << >>
    ELSE IF Len(buffer) >= maxlen THEN Append(Tail(buffer), x)
    ELSE Append(buffer, x)

\* The wall clock advances.
Tick ==
    /\ \E d \in TickSteps :
          /\ since_flush + d <= MaxSinceFlush
          /\ since_flush' = since_flush + d
    /\ UNCHANGED <<max_buffer_size, buffer_lock, thr, bufVars, poolVars,
                   sinkVars, engineVars, moduleVars>>

\* add_metric, lines 57-68: the event is built, the lock is taken.
AddMetricLock(t) ==
    /\ thr[t].pc = "idle"
    /\ accepted + Cardinality({u \in Producers : thr[u].pc = "append"})
          < Workload
    /\ buffer_lock = {}
    /\ buffer_lock' = {t}
    /\ thr' = [thr EXCEPT ![t].pc = "append"]
    /\ UNCHANGED <<max_buffer_size, since_flush, bufVars, poolVars,
                   sinkVars, engineVars, moduleVars>>

\* The flush condition with the size test strict.
\* add_metric with a size threshold that follows the configured capacity.
ShouldFlush_atcapacity(buffer, elapsed) ==
    \/ Len(buffer) >= Min(FLUSH_SIZE, max_buffer_size)
    \/ elapsed > FLUSH_INTERVAL

ShouldFlush_over(buffer, elapsed) ==
    Len(buffer) > FLUSH_SIZE \/ elapsed > FLUSH_INTERVAL

\* The flush condition of line 72.
ShouldFlush(buffer, elapsed) ==
    Len(buffer) >= FLUSH_SIZE \/ elapsed > FLUSH_INTERVAL

\* add_metric, lines 69-77: append, test the flush condition, release the
\* lock, then call _flush_async if the condition held.
AddMetricAppend(t) ==
    /\ thr[t].pc = "append"
    /\ LET event == accepted + 1
           buffer == deque_append(metrics_buffer, event, max_buffer_size)
       IN  /\ metrics_buffer' = buffer
           /\ accepted' = event
           /\ dropped' = dropped \cup
                  ((Elems(metrics_buffer) \cup {event}) \ Elems(buffer))
           /\ thr' = [thr EXCEPT ![t].pc =
                         IF ShouldFlush(buffer, since_flush)
                         THEN "flush" ELSE "idle"]
    /\ buffer_lock' = {}
    /\ UNCHANGED <<max_buffer_size, since_flush, poolVars, sinkVars,
                   engineVars, moduleVars>>

\* _flush_async, line 81: the lock is taken again.
FlushAsyncLock(t) ==
    /\ thr[t].pc = "flush"
    /\ buffer_lock = {}
    /\ buffer_lock' = {t}
    /\ thr' = [thr EXCEPT ![t].pc = "pop"]
    /\ UNCHANGED <<max_buffer_size, since_flush, bufVars, poolVars,
                   sinkVars, engineVars, moduleVars>>

\* _flush_async with the batch copied from the buffer and nothing popped.
FlushAsyncPop_peek(t) ==
    /\ thr[t].pc = "pop"
    /\ buffer_lock' = {}
    /\ IF metrics_buffer = << >>
       THEN /\ thr' = [thr EXCEPT ![t].pc = "idle"]
            /\ UNCHANGED since_flush
       ELSE LET n == Min(BATCH_LIMIT, Len(metrics_buffer))
            IN  /\ thr' = [thr EXCEPT
                          ![t].pc = "submit",
                          ![t].batch = SubSeq(metrics_buffer, 1, n)]
                /\ since_flush' = 0
    /\ UNCHANGED <<max_buffer_size, bufVars, poolVars, sinkVars, engineVars, moduleVars>>

\* _flush_async popping from the right end of the deque.
FlushAsyncPop_newest(t) ==
    /\ thr[t].pc = "pop"
    /\ buffer_lock' = {}
    /\ IF metrics_buffer = << >>
       THEN /\ thr' = [thr EXCEPT ![t].pc = "idle"]
            /\ UNCHANGED <<metrics_buffer, since_flush>>
       ELSE LET len == Len(metrics_buffer)
                n == Min(BATCH_LIMIT, len)
            IN  /\ thr' = [thr EXCEPT
                          ![t].pc = "submit",
                          ![t].batch =
                              [i \in 1 .. n |-> metrics_buffer[len + 1 - i]]]
                /\ metrics_buffer' = SubSeq(metrics_buffer, 1, len - n)
                /\ since_flush' = 0
    /\ UNCHANGED <<max_buffer_size, accepted, dropped, poolVars, sinkVars,
                   engineVars, moduleVars>>

\* _flush_async keeping the lock until the batch has been submitted.
FlushAsyncPop_holdlock(t) ==
    /\ thr[t].pc = "pop"
    /\ buffer_lock' = IF metrics_buffer = << >> THEN {} ELSE buffer_lock
    /\ IF metrics_buffer = << >>
       THEN /\ thr' = [thr EXCEPT ![t].pc = "idle"]
            /\ UNCHANGED <<metrics_buffer, since_flush>>
       ELSE LET n == Min(BATCH_LIMIT, Len(metrics_buffer))
            IN  /\ thr' = [thr EXCEPT
                          ![t].pc = "submit",
                          ![t].batch = SubSeq(metrics_buffer, 1, n)]
                /\ metrics_buffer' =
                       SubSeq(metrics_buffer, n + 1, Len(metrics_buffer))
                /\ since_flush' = 0
    /\ UNCHANGED <<max_buffer_size, accepted, dropped, poolVars, sinkVars,
                   engineVars, moduleVars>>

\* _flush_async, lines 82-90: return on an empty buffer, else pop up to 20
\* events from the left and set last_flush; the lock is released.
FlushAsyncPop(t) ==
    /\ thr[t].pc = "pop"
    /\ buffer_lock' = {}
    /\ IF metrics_buffer = << >>
       THEN /\ thr' = [thr EXCEPT ![t].pc = "idle"]
            /\ UNCHANGED <<metrics_buffer, since_flush>>
       ELSE LET n == Min(BATCH_LIMIT, Len(metrics_buffer))
            IN  /\ thr' = [thr EXCEPT
                          ![t].pc = "submit",
                          ![t].batch = SubSeq(metrics_buffer, 1, n)]
                /\ metrics_buffer' =
                       SubSeq(metrics_buffer, n + 1, Len(metrics_buffer))
                /\ since_flush' = 0
    /\ UNCHANGED <<max_buffer_size, accepted, dropped, poolVars, sinkVars,
                   engineVars, moduleVars>>

\* _flush_async, lines 93-94: the batch goes to the pool.
FlushAsyncSubmit(t) ==
    /\ thr[t].pc = "submit"
    /\ executor' = Append(executor, thr[t].batch)
    /\ thr' = [thr EXCEPT ![t] = IdleThread]
    /\ UNCHANGED <<max_buffer_size, buffer_lock, since_flush, bufVars,
                   worker, tasks, next_task, sinkVars, engineVars, moduleVars>>

\* _publish_batch, line 103: a free worker takes the next batch and
\* registers an async task.
PublishBatchStart(w) ==
    /\ worker[w].pc = "idle"
    /\ executor # << >>
    /\ executor' = Tail(executor)
    /\ worker' = [worker EXCEPT ![w] = [pc |-> "put",
                                        batch |-> Head(executor),
                                        task_id |-> next_task]]
    /\ tasks' = tasks \cup {next_task}
    /\ next_task' = next_task + 1
    /\ UNCHANGED <<max_buffer_size, buffer_lock, since_flush, thr, bufVars,
                   sinkVars, engineVars, moduleVars>>

\* One call of cloudwatch.put_metric_data with MetricData=data, which
\* returns or raises.
PutMetricData(data, sink_raised) ==
    /\ sink' = [e \in DOMAIN sink |->
                   IF e \in Elems(data) THEN sink[e] + 1 ELSE sink[e]]
    /\ largest_call' = IF Len(data) > largest_call THEN Len(data)
                       ELSE largest_call
    /\ raised' = IF sink_raised THEN Elems(data) ELSE {}

\* _publish_batch sending the batch again after a call that raised.
AfterPublish_retry(sink_raised) == IF sink_raised THEN "put" ELSE "complete"

\* _publish_batch leaving through the exception, past the finally clause.
AfterPublish_leak(sink_raised) == IF sink_raised THEN "idle" ELSE "complete"

\* _publish_batch, lines 112-115: "except Exception" logs the error, and
\* the finally clause runs after either outcome.
AfterPublish(sink_raised) == "complete"

\* _publish_batch, lines 105-113: the sink call; an exception is caught.
PublishBatchPut(w) ==
    /\ worker[w].pc = "put"
    /\ \E sink_raised \in BOOLEAN :
          /\ PutMetricData(worker[w].batch, sink_raised)
          /\ worker' = [worker EXCEPT ![w].pc = AfterPublish(sink_raised)]
    /\ UNCHANGED <<max_buffer_size, buffer_lock, since_flush, thr, bufVars,
                   executor, tasks, next_task, engineVars, moduleVars>>

\* _publish_batch, lines 114-115: finally, the task is completed.
PublishBatchComplete(w) ==
    /\ worker[w].pc = "complete"
    /\ tasks' = tasks \ {worker[w].task_id}
    /\ worker' = [worker EXCEPT ![w] = IdleWorker]
    /\ UNCHANGED <<max_buffer_size, buffer_lock, since_flush, thr, bufVars,
                   executor, next_task, sinkVars, engineVars, moduleVars>>

\* flush_remaining, line 119: the lock is taken.
FlushRemainingLock ==
    /\ thr[Shutdown].pc = "idle"
    /\ buffer_lock = {}
    /\ buffer_lock' = {Shutdown}
    /\ thr' = [thr EXCEPT ![Shutdown].pc = "take"]
    /\ UNCHANGED <<max_buffer_size, since_flush, bufVars, poolVars,
                   sinkVars, engineVars, moduleVars>>

\* flush_remaining taking only the newest buffered event and clearing the
\* buffer.
FlushRemainingTake_newest ==
    /\ thr[Shutdown].pc = "take"
    /\ buffer_lock' = {}
    /\ IF metrics_buffer = << >>
       THEN /\ thr' = [thr EXCEPT ![Shutdown].pc = "idle"]
            /\ UNCHANGED metrics_buffer
       ELSE /\ thr' = [thr EXCEPT
                         ![Shutdown].pc = "drain",
                         ![Shutdown].batch =
                             << metrics_buffer[Len(metrics_buffer)] >>]
            /\ metrics_buffer' = << >>
    /\ UNCHANGED <<max_buffer_size, since_flush, accepted, dropped,
                   poolVars, sinkVars, engineVars, moduleVars>>

\* flush_remaining without the test for an empty buffer.
FlushRemainingTake_nocheck ==
    /\ thr[Shutdown].pc = "take"
    /\ buffer_lock' = {}
    /\ thr' = [thr EXCEPT ![Shutdown].pc = "drain",
                          ![Shutdown].batch = metrics_buffer]
    /\ metrics_buffer' = << >>
    /\ UNCHANGED <<max_buffer_size, since_flush, accepted, dropped,
                   poolVars, sinkVars, engineVars, moduleVars>>

\* flush_remaining, lines 120-124: return on an empty buffer, else take
\* the whole buffer and clear it; the lock is released.
FlushRemainingTake ==
    /\ thr[Shutdown].pc = "take"
    /\ buffer_lock' = {}
    /\ IF metrics_buffer = << >>
       THEN /\ thr' = [thr EXCEPT ![Shutdown].pc = "idle"]
            /\ UNCHANGED metrics_buffer
       ELSE /\ thr' = [thr EXCEPT ![Shutdown].pc = "drain",
                                  ![Shutdown].batch = metrics_buffer]
            /\ metrics_buffer' = << >>
    /\ UNCHANGED <<max_buffer_size, since_flush, accepted, dropped,
                   poolVars, sinkVars, engineVars, moduleVars>>

\* flush_remaining, lines 126-135: the synchronous sink call; an exception
\* is caught and logged, and the call returns.
FlushRemainingPut ==
    /\ thr[Shutdown].pc = "drain"
    /\ \E sink_raised \in BOOLEAN :
          PutMetricData(thr[Shutdown].batch, sink_raised)
    /\ thr' = [thr EXCEPT ![Shutdown] = IdleThread]
    /\ UNCHANGED <<max_buffer_size, buffer_lock, since_flush, bufVars,
                   poolVars, engineVars, moduleVars>>

\* The wall clock advances without passing the flush interval.
TickWithinInterval ==
    /\ \E d \in TickSteps :
          /\ since_flush + d <= FLUSH_INTERVAL
          /\ since_flush' = since_flush + d
    /\ UNCHANGED <<max_buffer_size, buffer_lock, thr, bufVars, poolVars,
                   sinkVars, engineVars, moduleVars>>

PubNext ==
    \/ Tick
    \/ \E t \in Producers :
          \/ AddMetricLock(t)
          \/ AddMetricAppend(t)
          \/ FlushAsyncLock(t)
          \/ FlushAsyncPop(t)
          \/ FlushAsyncSubmit(t)
    \/ \E w \in Workers :
          \/ PublishBatchStart(w)
          \/ PublishBatchPut(w)
          \/ PublishBatchComplete(w)
    \/ FlushRemainingLock
    \/ FlushRemainingTake
    \/ FlushRemainingPut

(***************************************************************************)
(* Specifications.  Spec runs the decision engine over an idle publisher;  *)
(* SpecPub runs the publisher over an idle engine.                         *)
(***************************************************************************)
Init == EngineInit /\ Constructed(DEFAULT_MAX_BUFFER_SIZE)

Next == EngineNext

Spec == Init /\ [][Next]_vars

PubInit == EngineInit /\ \E capacity \in Capacities : Constructed(capacity)

SpecPub == PubInit /\ [][PubNext]_vars

\* The scheduling the publisher can rely on.  A thread that is inside
\* add_metric, _flush_async or flush_remaining keeps running, and gets the
\* lock it waits for; a pool worker takes a queued batch and finishes it;
\* the clock advances.  Nothing makes a request thread call add_metric
\* again, and nothing makes the host call flush_remaining: new calls are the
\* callers' choice, and the class starts no thread or timer of its own
\* (__init__, lines 37-43, creates only the pool).
PubFairness ==
    /\ WF_vars(Tick)
    /\ \A t \in Producers :
          /\ WF_vars(AddMetricAppend(t))
          /\ SF_vars(FlushAsyncLock(t))
          /\ WF_vars(FlushAsyncPop(t))
          /\ WF_vars(FlushAsyncSubmit(t))
    /\ \A w \in Workers :
          /\ WF_vars(PublishBatchStart(w))
          /\ WF_vars(PublishBatchPut(w))
          /\ WF_vars(PublishBatchComplete(w))
    /\ WF_vars(FlushRemainingTake)
    /\ WF_vars(FlushRemainingPut)

FairSpecPub == PubInit /\ [][PubNext]_vars /\ PubFairness

\* The publisher fed FLUSH_SIZE events and SizeExtraCalls more by request
\* threads within one flush interval of its construction; flush_remaining
\* is not called.
SizeCapacities == {FLUSH_SIZE - 1, FLUSH_SIZE, DEFAULT_MAX_BUFFER_SIZE}

SizeInit ==
    /\ EngineInit
    /\ \E capacity \in SizeCapacities :
          ConstructedFor(capacity, FLUSH_SIZE + SizeExtraCalls)

SizeNext ==
    \/ TickWithinInterval
    \/ \E t \in Producers :
          \/ AddMetricLock(t)
          \/ AddMetricAppend(t)
          \/ FlushAsyncLock(t)
          \/ FlushAsyncPop(t)
          \/ FlushAsyncSubmit(t)
    \/ \E w \in Workers :
          \/ PublishBatchStart(w)
          \/ PublishBatchPut(w)
          \/ PublishBatchComplete(w)

SpecSize == SizeInit /\ [][SizeNext]_vars

\* The same feed while the host shuts down: flush_remaining is called at any
\* moment of it.
DrainNext ==
    \/ SizeNext
    \/ FlushRemainingLock
    \/ FlushRemainingTake
    \/ FlushRemainingPut

SpecDrain == SizeInit /\ [][DrainNext]_vars

\* The same feed made by one thread, one add_metric call after the other,
\* with flush_remaining not called.  The clock may pass the flush interval
\* during the first SizeExtraCalls calls, which leaves FLUSH_SIZE calls to
\* follow a flush by time, and stays within it afterwards.
MainThread == 1

TickBeforeExtraCalls ==
    /\ accepted < SizeExtraCalls
    /\ Tick

SerialNext ==
    \/ TickWithinInterval
    \/ TickBeforeExtraCalls
    \/ AddMetricLock(MainThread)
    \/ AddMetricAppend(MainThread)
    \/ FlushAsyncLock(MainThread)
    \/ FlushAsyncPop(MainThread)
    \/ FlushAsyncSubmit(MainThread)
    \/ \E w \in Workers :
          \/ PublishBatchStart(w)
          \/ PublishBatchPut(w)
          \/ PublishBatchComplete(w)

SpecSerial == SizeInit /\ [][SerialNext]_vars

\* The two components as the repository has them: entrypoint.py sends its
\* data points with its own cloudwatch client and constructs no
\* AgentCoreMetricsPublisher, so a run is a run of the decision engine or a
\* run of a publisher, never of both.  The engine serves its requests one
\* after the other here.
EngineIdle == \A r \in Requests : frame[r].pc = "idle"

PublisherIdle == accepted = 0 /\ since_flush = 0 /\ buffer_lock = {}

SerialInvoke(r) ==
    /\ PublisherIdle
    /\ \A q \in Requests \ {r} : frame[q].pc \in {"idle", "done", "raised"}
    /\ Invoke(r)

PublisherAlone ==
    /\ EngineIdle
    /\ PubNext

SinkNext ==
    \/ \E r \in Requests : SerialInvoke(r)
    \/ PublisherAlone

SpecSink == PubInit /\ [][SinkNext]_vars

(***************************************************************************)
(* Module-level state shared by the request threads: the token accumulator *)
(* of order_tracking_agent.py, which support_agent.invoke_agent resets and *)
(* reads, and the lazily created store client of entrypoint.py.  Each      *)
(* statement that touches a global is one step; the steps of different     *)
(* threads interleave.                                                     *)
(***************************************************************************)
\* response.metrics.accumulated_usage of one support_agent call:
\* (inputTokens, outputTokens), (0, 0) when the response has no metrics.
SupportUsages == {<<0, 0>>, <<40, 9>>}
\* What invoke_tracking_agent reports for one delegated query.
TrackingUsages == {<<7, 2>>}
\* The tool calls of one support_agent run: none, or one delegation.
ToolCalls == {<< >>} \cup {<<u>> : u \in TrackingUsages}

\* invoke_agent, line 64: reset_token_accumulator(); then support_agent
\* runs, with the usage and the delegation drawn here.
InvokeAgentReset(r) ==
    /\ agent_run[r].pc = "idle"
    /\ accumulated_tokens' = <<0, 0>>
    /\ \E usage \in SupportUsages, tool \in ToolCalls :
          agent_run' = [agent_run EXCEPT ![r] =
                           [pc |-> "agent", usage |-> usage, tool |-> tool,
                            total |-> <<0, 0>>]]
    /\ UNCHANGED <<cache_client, created, getter, codec, engineVars, pubVars>>

\* lookup_order_tracking, line 165: _accumulated_tokens["input"] += ...
LookupOrderTrackingInput(r) ==
    /\ agent_run[r].pc = "agent"
    /\ agent_run[r].tool # << >>
    /\ accumulated_tokens' =
          <<accumulated_tokens[1] + agent_run[r].tool[1][1],
            accumulated_tokens[2]>>
    /\ agent_run' = [agent_run EXCEPT ![r].pc = "tool"]
    /\ UNCHANGED <<cache_client, created, getter, codec, engineVars, pubVars>>

\* lookup_order_tracking, line 166: _accumulated_tokens["output"] += ...
LookupOrderTrackingOutput(r) ==
    /\ agent_run[r].pc = "tool"
    /\ accumulated_tokens' =
          <<accumulated_tokens[1],
            accumulated_tokens[2] + agent_run[r].tool[1][2]>>
    /\ agent_run' = [agent_run EXCEPT ![r].pc = "answer"]
    /\ UNCHANGED <<cache_client, created, getter, codec, engineVars, pubVars>>

\* invoke_agent, lines 68-85: the response's own usage plus
\* get_accumulated_tokens().
InvokeAgentTotals(r) ==
    /\ \/ agent_run[r].pc = "answer"
       \/ agent_run[r].pc = "agent" /\ agent_run[r].tool = << >>
    /\ LET sub == accumulated_tokens
           own == agent_run[r].usage
       IN  agent_run' = [agent_run EXCEPT
                            ![r].pc = "done",
                            ![r].total = <<own[1] + sub[1], own[2] + sub[2]>>]
    /\ UNCHANGED <<accumulated_tokens, cache_client, created, getter, codec,
                   engineVars, pubVars>>

\* get_cache_client, line 57: if _cache_client is None
GetCacheClientCheck(r) ==
    /\ getter[r].pc = "idle"
    /\ getter' = [getter EXCEPT ![r].pc =
                     IF cache_client = None THEN "create" ELSE "return"]
    /\ UNCHANGED <<accumulated_tokens, agent_run, cache_client, created,
                   codec, engineVars, pubVars>>

\* get_cache_client, lines 58-62: _cache_client = GlideClient.create(config)
GetCacheClientCreate(r) ==
    /\ getter[r].pc = "create"
    /\ created' = created + 1
    /\ cache_client' = created + 1
    /\ getter' = [getter EXCEPT ![r].pc = "return"]
    /\ UNCHANGED <<accumulated_tokens, agent_run, codec, engineVars, pubVars>>

\* get_cache_client, line 63: return _cache_client
GetCacheClientReturn(r) ==
    /\ getter[r].pc = "return"
    /\ getter' = [getter EXCEPT ![r].pc = "done", ![r].client = cache_client]
    /\ UNCHANGED <<accumulated_tokens, agent_run, cache_client, created,
                   codec, engineVars, pubVars>>

GlobalsNext ==
    \E r \in Requests :
       \/ InvokeAgentReset(r)
       \/ LookupOrderTrackingInput(r)
       \/ LookupOrderTrackingOutput(r)
       \/ InvokeAgentTotals(r)
       \/ GetCacheClientCheck(r)
       \/ GetCacheClientCreate(r)
       \/ GetCacheClientReturn(r)

SpecGlobals == Init /\ [][GlobalsNext]_vars

(***************************************************************************)
(* The vector codec: struct.pack(f"{len(embedding)}f", *embedding) on      *)
(* float32 values given by their IEEE-754 binary32 fields, and the index's *)
(* reading of a FLOAT32 vector field.  Byte order is the build's native    *)
(* order, least significant byte first.                                    *)
(***************************************************************************)
\* Zeros, subnormals, normals, the largest finite values and infinities of
\* both signs.  NaN is left out: it is not equal to itself.
Float32Samples ==
    {[sign |-> s, exponent |-> e, fraction |-> f] :
        s \in 0 .. 1, e \in {0, 1, 127, 254}, f \in {0, 1, 4194304, 8388607}}
    \cup {[sign |-> s, exponent |-> 255, fraction |-> 0] : s \in 0 .. 1}

Vectors == UNION {[1 .. d -> Float32Samples] : d \in 0 .. MaxDim}

\* The four bytes of one component with the sign bit left out.
pack_float32_unsigned(x) ==
    << x.fraction % 256,
       (x.fraction \div 256) % 256,
       (x.exponent % 2) * 128 + x.fraction \div 65536,
       x.exponent \div 2 >>

\* The four bytes of one component: fraction, exponent, sign from the least
\* significant bit up.
pack_float32(x) ==
    << x.fraction % 256,
       (x.fraction \div 256) % 256,
       (x.exponent % 2) * 128 + x.fraction \div 65536,
       x.sign * 128 + x.exponent \div 2 >>

unpack_float32(b) ==
    [sign |-> b[4] \div 128,
     exponent |-> (b[4] % 128) * 2 + b[3] \div 128,
     fraction |-> (b[3] % 128) * 65536 + b[2] * 256 + b[1]]

RECURSIVE struct_pack_floats(_)
struct_pack_floats(embedding) ==
    IF embedding = << >> THEN << >>
    ELSE pack_float32(Head(embedding)) \o struct_pack_floats(Tail(embedding))

RECURSIVE struct_unpack_floats(_)
struct_unpack_floats(bytes) ==
    IF bytes = << >> THEN << >>
    ELSE <<unpack_float32(SubSeq(bytes, 1, 4))>>
         \o struct_unpack_floats(SubSeq(bytes, 5, Len(bytes)))

CodecEncode ==
    /\ codec.pc = "vector"
    /\ codec' = [codec EXCEPT !.pc = "encoded",
                              !.bytes = struct_pack_floats(codec.v)]
    /\ UNCHANGED <<accumulated_tokens, agent_run, cache_client, created,
                   getter, engineVars, pubVars>>

CodecDecode ==
    /\ codec.pc = "encoded"
    /\ codec' = [codec EXCEPT !.pc = "decoded",
                              !.decoded = struct_unpack_floats(codec.bytes)]
    /\ UNCHANGED <<accumulated_tokens, agent_run, cache_client, created,
                   getter, engineVars, pubVars>>

CodecInit ==
    /\ EngineLoaded
    /\ Constructed(DEFAULT_MAX_BUFFER_SIZE)
    /\ \E v \in Vectors : codec = CodecOf(v)

CodecNext == CodecEncode \/ CodecDecode

SpecCodec == CodecInit /\ [][CodecNext]_vars

(***************************************************************************)
(* Properties of the decision engine (checked under Spec).                 *)
(***************************************************************************)
\* Execution r is on the hit path / on the miss path of invoke().
Hit(r) ==
    \/ frame[r].pc = "emit_hit"
    \/ frame[r].pc = "done" /\ frame[r].result.cached

MissPath(r) ==
    \/ frame[r].pc \in {"agent", "hset_vector", "hset_rr", "emit_miss"}
    \/ frame[r].pc = "done" /\ ~frame[r].result.cached

Returned(r) == frame[r].pc = "done"

\* Execution r ran the whole miss path: one embedding, one responder call on
\* the raw request text, and one vector hash and one rr hash written under
\* one identifier that no other execution wrote, the vector hash holding the
\* embedding of the request text.
MissPersisted(r) ==
    LET id == frame[r].request_id
    IN  /\ obs[r].embedCalls = 1
        /\ obs[r].agentCalls = 1
        /\ obs[r].agentArg = frame[r].request_text
        /\ id # None
        /\ obs[r].written = << <<KEY_PREFIX_VECTOR, id>>,
                               <<KEY_PREFIX_REQUEST_RESPONSE, id>> >>
        /\ \A q \in Requests \ {r} :
              \A i \in 1 .. Len(obs[q].written) : obs[q].written[i][2] # id
        /\ vectorStore[id] # EmptyHash
        /\ vectorStore[id].request_id = id
        /\ struct_unpack(vectorStore[id].embedding)
               = EmbeddingOf(frame[r].request_text)
        /\ rrStore[id] # EmptyHash
        /\ rrStore[id].request_text = frame[r].request_text
        /\ rrStore[id].response_text = frame[r].response_text

\* C1: a request whose search returned a match is classified as a hit
\* exactly when its similarity is at least SIMILARITY_THRESHOLD (the matched
\* record resolving): every hit has similarity >= threshold, and a request
\* on the miss path either has similarity < threshold or found no record.
C1_ThresholdBoundary ==
    \A r \in Requests :
        frame[r].cache_request_id # None =>
            /\ Hit(r) => frame[r].similarity >= SIMILARITY_THRESHOLD
            /\ MissPath(r) =>
                  \/ frame[r].similarity < SIMILARITY_THRESHOLD
                  \/ obs[r].fetched = "absent"

\* A request returned as a hit with similarity exactly at the threshold.
C1_Witness ==
    \E r \in Requests :
        /\ Returned(r)
        /\ frame[r].result.cached
        /\ frame[r].similarity = SIMILARITY_THRESHOLD

\* C2: on a hit the responder is never invoked for the request, and the
\* response text returned is the response_text of the record stored under
\* the matched identifier.
C2_HitServesStoredResponse ==
    \A r \in Requests :
        Hit(r) =>
            /\ obs[r].agentCalls = 0
            /\ Returned(r) =>
                  frame[r].result.response =
                      get_cached_response(frame[r].cache_request_id).response_text

\* A near-duplicate request (similarity above the threshold) returned from
\* the cache.
C2_Witness ==
    \E r \in Requests :
        /\ Returned(r)
        /\ frame[r].result.cached
        /\ frame[r].similarity > SIMILARITY_THRESHOLD
        /\ frame[r].result.response = "It is delayed."

\* C3: a request that returns after no match, or after a match below the
\* threshold, ran the same miss path: the responder was invoked exactly once
\* with the raw request text, the text was embedded once, and exactly one
\* vector hash and one rr hash were written, both under the same fresh
\* identifier, the vector hash holding the embedding computed for the text.
C3_MissPathPersistsPair ==
    \A r \in Requests :
        /\ obs[r].embedCalls <= 1
        /\ obs[r].agentCalls <= 1
        /\ ( /\ Returned(r)
             /\ \/ frame[r].cache_request_id = None
                \/ frame[r].similarity < SIMILARITY_THRESHOLD )
           => (~frame[r].result.cached /\ MissPersisted(r))

\* Two requests have returned, one after an empty search result and one
\* after a match below the threshold.
C3_Witness ==
    \E r, q \in Requests :
        /\ Returned(r) /\ frame[r].cache_request_id = None
        /\ Returned(q) /\ frame[q].cache_request_id # None
        /\ frame[q].similarity < SIMILARITY_THRESHOLD

\* C4: when the similarity search raises, invoke() raises: the responder is
\* not invoked, nothing is written to the store and no result is returned.
C4_SearchFailureIsFatal ==
    \A r \in Requests :
        obs[r].fault = "search" =>
            /\ frame[r].pc = "raised"
            /\ frame[r].result = EmptyHash
            /\ obs[r].agentCalls = 0
            /\ obs[r].written = << >>

\* A search failed while the index held a document.
C4_Witness ==
    \E r \in Requests : obs[r].fault = "search" /\ Indexed # {}

\* C5: when the embedding call or the responder call raises, invoke()
\* raises: no result (and no cached fallback) is returned and the request
\* writes nothing to the store.
C5_UpstreamFailureIsFatal ==
    \A r \in Requests :
        obs[r].fault \in {"embed", "agent"} =>
            /\ frame[r].pc = "raised"
            /\ frame[r].result = EmptyHash
            /\ obs[r].written = << >>

\* The responder failed while the store held a complete cached pair.
C5_Witness ==
    \E r \in Requests :
        /\ obs[r].fault = "agent"
        /\ \E id \in Uuids : rrStore[id] # EmptyHash

\* C6: a failing store write on the miss path does not fail the request:
\* invoke() still returns the responder's text with cached = False.
C6_PersistenceFailureNotVisible ==
    \A r \in Requests :
        obs[r].fault \in {"hset_vector", "hset_rr"} =>
            /\ frame[r].pc # "raised"
            /\ Returned(r) =>
                  /\ ~frame[r].result.cached
                  /\ frame[r].result.response = obs[r].agentAnswer[1]

\* C7: a match at or above the threshold whose record is absent is handled
\* as a miss: the request is not a hit and does not fail on that account (it
\* raises only if a later call fails); it runs the miss path and, when it
\* returns, the responder was invoked once, a new pair was persisted and
\* cached = False.
C7_RecordInconsistencyIsMiss ==
    \A r \in Requests :
        obs[r].fetched = "absent" =>
            /\ MissPath(r) \/ frame[r].pc = "raised"
            /\ frame[r].pc = "raised" => obs[r].fault # "none"
            /\ Returned(r) => (~frame[r].result.cached /\ MissPersisted(r))

\* A request returned after its matched record was found absent.
C7_Witness ==
    \E r \in Requests :
        /\ obs[r].fetched = "absent"
        /\ Returned(r)
        /\ frame[r].similarity >= SIMILARITY_THRESHOLD

\* C8: after a miss-path execution that returns, get_cached_response on the
\* generated identifier yields a record whose tokens_input and tokens_output
\* are the counts the responder returned and whose cost_dollars is the cost
\* of those counts, the value reported as cost paid.
C8_StoredCountsMatchResponder ==
    \A r \in Requests :
        (Returned(r) /\ ~frame[r].result.cached) =>
            LET rec == get_cached_response(frame[r].request_id)
                answer == obs[r].agentAnswer
            IN  /\ rec # EmptyHash
                /\ int(rec.tokens_input) = answer[2]
                /\ int(rec.tokens_output) = answer[3]
                /\ rec.cost_dollars = str(frame[r].cost)
                /\ frame[r].cost = answer[2] * CLAUDE_SONNET_4_INPUT_COST
                                   + answer[3] * CLAUDE_SONNET_4_OUTPUT_COST

\* A miss returned whose responder call reported non-zero token counts.
C8_Witness ==
    \E r \in Requests :
        /\ Returned(r)
        /\ ~frame[r].result.cached
        /\ obs[r].agentAnswer[2] > 0
        /\ obs[r].agentAnswer[3] > 0

\* C9: in every state of the store, every rr hash has a vector hash under
\* the same identifier (the keyed store holds at most one).
C9_ResponseHasVector ==
    \A id \in Uuids :
        rrStore[id] # EmptyHash =>
            /\ vectorStore[id] # EmptyHash
            /\ vectorStore[id].request_id = id

\* One request failed between its two writes while another's pair is
\* complete.
C9_Witness ==
    /\ \E r \in Requests : obs[r].fault = "hset_rr"
    /\ \E id \in Uuids : vectorStore[id] # EmptyHash /\ rrStore[id] = EmptyHash
    /\ \E id \in Uuids : rrStore[id] # EmptyHash

\* C16: the metric events of a request are handed to the metrics
\* publisher's buffer and the request's own execution makes no call to the
\* metrics sink: an execution of invoke() has made no sink call, and once it
\* has returned its events have been accepted by the publisher.
C16_MetricsOffCriticalPath ==
    \A r \in Requests :
        /\ obs[r].sinkCalls = 0
        /\ Returned(r) => accepted > 0

\* The pairs of token counts the model prices: what the responder reports,
\* and the estimate for a request text with a reported output count.
TokenPairs ==
    {<<a[2], a[3]>> : a \in AgentAnswers}
        \cup {<<estimate_tokens(t), a[3]>> : t \in Texts, a \in AgentAnswers}

\* The value of the data point called name among the data points of
\* execution r, as a set (empty when there is none).
MetricValues(r, name) ==
    {obs[r].metricData[i].Value :
        i \in {j \in 1 .. Len(obs[r].metricData) :
                  obs[r].metricData[j].MetricName = name}}

\* C17: the cost avoided on a hit, the cost paid on a miss and the cost
\* stored with the record price a pair of token counts alike, as
\* input x input rate + output x output rate (per million tokens): the three
\* computations agree on every pair, a returned hit reports that price of
\* (estimated input, stored output), a returned miss reports that price of
\* the responder's counts and stores the same number.
C17_CostSymmetry ==
    /\ \A p \in TokenPairs :
          LET price == p[1] * CLAUDE_SONNET_4_INPUT_COST
                       + p[2] * CLAUDE_SONNET_4_OUTPUT_COST
          IN  /\ CostAvoided(p[1], p[2]) = price
              /\ CostPaid(p[1], p[2]) = price
              /\ CostStored(p[1], p[2]) = price
    /\ \A r \in Requests :
          Returned(r) =>
              IF frame[r].result.cached
              THEN /\ frame[r].cost =
                          estimate_tokens(frame[r].request_text)
                              * CLAUDE_SONNET_4_INPUT_COST
                          + int(frame[r].cached.tokens_output)
                              * CLAUDE_SONNET_4_OUTPUT_COST
                   /\ MetricValues(r, "CostSavings") \subseteq {frame[r].cost}
              ELSE /\ frame[r].cost =
                          obs[r].agentAnswer[2] * CLAUDE_SONNET_4_INPUT_COST
                          + obs[r].agentAnswer[3] * CLAUDE_SONNET_4_OUTPUT_COST
                   /\ MetricValues(r, "CostPaid") \subseteq {frame[r].cost}
                   /\ rrStore[frame[r].request_id].cost_dollars
                          = str(frame[r].cost)

\* A miss that paid for its tokens and a hit on the record it stored,
\* which avoided a cost, have both returned.
C17_Witness ==
    \E r, q \in Requests :
        /\ Returned(r) /\ ~frame[r].result.cached /\ frame[r].cost > 0
        /\ Returned(q) /\ frame[q].result.cached /\ frame[q].cost > 0
        /\ frame[q].cache_request_id = frame[r].request_id
        /\ MetricValues(q, "CostSavings") # {}

\* The similarity of the request text of r to the document search_cache
\* matched for it, from the stored vector.
FoundSimilarity(r) ==
    100 - Distance(EmbeddingOf(frame[r].request_text),
                   struct_unpack(
                       vectorStore[frame[r].cache_request_id].embedding))

MetricNames(r) ==
    [i \in 1 .. Len(obs[r].metricData) |-> obs[r].metricData[i].MetricName]

\* C19 as stated: a request whose search returned nothing emits exactly two
\* data points, the latency with the miss dimension and the hit indicator 0.
C19_TwoEventsOnEmptyMiss ==
    \A r \in Requests :
        (Returned(r) /\ frame[r].cache_request_id = None)
        => MetricNames(r) = <<"Latency", "CacheHit">>

\* C19 (amended): a request whose search returned nothing emits, in one
\* sink call, the latency with the miss dimension, the hit indicator 0 and
\* the similarity score 0, and after them the cost paid exactly when the
\* cost is positive: three data points or four.
C19_EventsOnEmptyMiss ==
    \A r \in Requests :
        (Returned(r) /\ frame[r].cache_request_id = None)
        => /\ ~frame[r].result.cached
           /\ obs[r].sinkCalls = 1
           /\ MetricNames(r) =
                  IF frame[r].cost > 0
                  THEN <<"Latency", "CacheHit", "SimilarityScore", "CostPaid">>
                  ELSE <<"Latency", "CacheHit", "SimilarityScore">>
           /\ obs[r].metricData[1].Dimensions =
                  << [Name |-> "CacheStatus", Value |-> "Miss"] >>
           /\ obs[r].metricData[2].Value = 0
           /\ obs[r].metricData[3].Value = 0
           /\ frame[r].cost > 0 => obs[r].metricData[4].Value = frame[r].cost

\* The request of scenario A returned from an empty cache, the responder
\* having reported token counts.
C19_Witness ==
    \E r \in Requests :
        /\ Returned(r)
        /\ frame[r].cache_request_id = None
        /\ frame[r].request_text = "Where is order 42?"
        /\ frame[r].cost > 0
        /\ Len(obs[r].metricData) = 4

\* C20: a CostSavings data point is emitted exactly for a hit whose cost
\* avoided is positive, a CostPaid data point exactly for a miss whose cost
\* paid is positive; so a hit emits no CostPaid and a miss no CostSavings.
C20_CostEventsOnlyWhenMeaningful ==
    \A r \in Requests :
        Returned(r) =>
            /\ ("CostSavings" \in Elems(MetricNames(r)))
                  <=> (frame[r].result.cached /\ frame[r].cost > 0)
            /\ ("CostPaid" \in Elems(MetricNames(r)))
                  <=> (~frame[r].result.cached /\ frame[r].cost > 0)

\* A hit that avoided no cost (an empty estimate and a stored output count
\* of 0) returned after the miss that stored its record at no cost.
C20_Witness ==
    \E r, q \in Requests :
        /\ Returned(r) /\ ~frame[r].result.cached /\ frame[r].cost = 0
        /\ Returned(q) /\ frame[q].result.cached /\ frame[q].cost = 0
        /\ Len(obs[q].metricData) = 3

\* The keys execution r may have written so far: nothing, the vector key of
\* one identifier, or that key and then the rr key of the same identifier.
OwnPairPrefix(r) ==
    LET w == obs[r].written
    IN  /\ Len(w) <= 2
        /\ Len(w) >= 1 => w[1][1] = KEY_PREFIX_VECTOR
        /\ Len(w) = 2 => w[2] = <<KEY_PREFIX_REQUEST_RESPONSE, w[1][2]>>
        /\ \A q \in Requests \ {r} :
              \A i \in 1 .. Len(w), j \in 1 .. Len(obs[q].written) :
                 w[i][2] # obs[q].written[j][2]

\* C27: records are written once and are immutable: no step of invoke()
\* changes or deletes a VectorRecord or ResponseRecord that exists; the hit
\* path writes nothing to the store; the miss path writes only the two keys
\* of its own fresh identifier, each once, and each into a key that held
\* nothing.
C27_RecordsImmutable ==
    [][ /\ \A id \in Uuids :
              /\ vectorStore[id] # EmptyHash
                    => vectorStore'[id] = vectorStore[id]
              /\ rrStore[id] # EmptyHash => rrStore'[id] = rrStore[id]
              /\ vectorStore'[id] # vectorStore[id]
                    => \E r \in Requests :
                          /\ MissPath(r)
                          /\ obs'[r].written =
                                Append(obs[r].written, <<KEY_PREFIX_VECTOR, id>>)
              /\ rrStore'[id] # rrStore[id]
                    => \E r \in Requests :
                          /\ MissPath(r)
                          /\ obs'[r].written =
                                Append(obs[r].written,
                                       <<KEY_PREFIX_REQUEST_RESPONSE, id>>)
        /\ \A r \in Requests :
              /\ OwnPairPrefix(r)
              /\ Hit(r) => (obs[r].written = << >>
                             /\ obs'[r].written = << >>)
      ]_vars

\* A hit was served from the pair another execution wrote, and the hit
\* wrote nothing.
C27_Witness ==
    \E r, q \in Requests :
        /\ Returned(r) /\ Hit(r) /\ obs[r].written = << >>
        /\ Returned(q) /\ MissPath(q) /\ Len(obs[q].written) = 2
        /\ frame[r].cache_request_id = frame[q].request_id
        /\ rrStore[frame[q].request_id] # EmptyHash

\* C29: the partial-write window.  A request whose search returned, at or
\* above the threshold, an identifier whose ResponseRecord is not written
\* (yet) never returns a hit and does not fail on that account: it takes the
\* miss path, invokes the responder itself and persists a new pair of its
\* own; it raises only if one of those later calls fails.  A hit is built
\* only from a complete record, the one in the store.
C29_PartialWriteIsMiss ==
    \A q \in Requests :
        /\ obs[q].fetched = "absent" =>
              /\ ~Hit(q)
              /\ MissPath(q) \/ frame[q].pc = "raised"
              /\ frame[q].pc = "raised"
                    => obs[q].fault \in {"agent", "hset_vector", "hset_rr"}
              /\ Returned(q) =>
                    /\ obs[q].agentCalls = 1
                    /\ frame[q].request_id \notin
                          {None, frame[q].cache_request_id}
                    /\ obs[q].written =
                          << <<KEY_PREFIX_VECTOR, frame[q].request_id>>,
                             <<KEY_PREFIX_REQUEST_RESPONSE,
                               frame[q].request_id>> >>
                    /\ vectorStore[frame[q].request_id] # EmptyHash
                    /\ rrStore[frame[q].request_id] # EmptyHash
        /\ Hit(q) =>
              /\ obs[q].fetched = "found"
              /\ frame[q].cached = rrStore[frame[q].cache_request_id]
              /\ DOMAIN frame[q].cached =
                    {"request_text", "response_text", "tokens_input",
                     "tokens_output", "cost_dollars"}

\* A request returned from the miss path after matching, at or above the
\* threshold, the vector of a writer that is still between its two writes.
C29_Witness ==
    \E q, r \in Requests :
        /\ q # r
        /\ obs[q].fetched = "absent"
        /\ Returned(q)
        /\ frame[q].similarity >= SIMILARITY_THRESHOLD
        /\ frame[r].pc = "hset_rr"
        /\ frame[r].request_id = frame[q].cache_request_id
        /\ rrStore[frame[r].request_id] = EmptyHash

(***************************************************************************)
(* Properties of the metrics publisher (checked under SpecPub).            *)
(***************************************************************************)
\* C10: the buffer never holds more than max_buffer_size events; an event
\* the deque discarded is older than every event still buffered, and the
\* event appended last is never the one discarded: it is the newest element
\* of the buffer for as long as the buffer is not empty.
C10_BufferBound ==
    /\ Len(metrics_buffer) <= max_buffer_size
    /\ accepted \notin dropped
    /\ \A d \in dropped : \A e \in Elems(metrics_buffer) : d < e
    /\ metrics_buffer # << >> =>
          metrics_buffer[Len(metrics_buffer)] = accepted

\* A full buffer after an overflow discarded an event.
C10_Witness ==
    /\ dropped # {}
    /\ Len(metrics_buffer) = max_buffer_size

\* No request thread is inside add_metric (or the _flush_async it calls).
ProducersIdle == \A t \in Producers : thr[t].pc = "idle"

\* C11: when flush_remaining runs with no add_metric concurrent with it,
\* then at its return the buffer is empty and every event that was in the
\* buffer when it was called has been passed to the sink exactly once.  The
\* lock is taken by the call's first step, so the buffer at call time is the
\* buffer the call finds; the call copies all of it, and when no event was
\* accepted during the call (the newest accepted event is the newest of the
\* copied ones) the return leaves an empty buffer and each copied event
\* sent once.
C11_DrainCompleteness ==
    [][ /\ (thr[Shutdown].pc = "take" /\ thr'[Shutdown].pc = "idle")
           => metrics_buffer' = << >>
        /\ (thr[Shutdown].pc = "take" /\ thr'[Shutdown].pc = "drain")
           => /\ thr'[Shutdown].batch = metrics_buffer
              /\ metrics_buffer' = << >>
        /\ ( /\ thr[Shutdown].pc = "drain" /\ thr'[Shutdown].pc = "idle"
             /\ ProducersIdle
             /\ accepted = thr[Shutdown].batch[Len(thr[Shutdown].batch)] )
           => /\ metrics_buffer' = << >>
              /\ \A e \in Elems(thr[Shutdown].batch) : sink'[e] = 1
      ]_vars

\* flush_remaining has returned after sending two or more buffered events
\* in its one call, no batch ever having gone to the pool.
C11_Witness ==
    /\ thr[Shutdown].pc = "idle"
    /\ ProducersIdle
    /\ next_task = 1 /\ executor = << >>
    /\ accepted >= 2
    /\ metrics_buffer = << >>
    /\ largest_call >= 2
    /\ \A e \in 1 .. accepted : e \notin dropped => sink[e] = 1

\* The number of batches, pending or sent, that hold event e: batches held
\* by a thread between extraction and submission or sink call, batches queued
\* in the pool, batches a worker has not sent yet, and sink calls made.
Extractions(e) ==
    Cardinality({t \in Threads : e \in Elems(thr[t].batch)})
    + Cardinality({i \in 1 .. Len(executor) : e \in Elems(executor[i])})
    + Cardinality({w \in Workers :
                      worker[w].pc = "put" /\ e \in Elems(worker[w].batch)})
    + sink[e]

\* C12: under every interleaving of add_metric, asynchronous flushes and
\* flush_remaining, every accepted event is either still buffered, or
\* evicted by capacity overflow, or extracted into exactly one batch (an
\* asynchronous batch or the drain batch), and never two of these; so once
\* the drain has taken the buffer, each event accepted before it that was
\* not evicted is in exactly one batch.
C12_NoEventLostByDrain ==
    /\ \A e \in 1 .. accepted :
          LET n == Extractions(e)
          IN  /\ n <= 1
              /\ (e \in Elems(metrics_buffer)) => (n = 0 /\ e \notin dropped)
              /\ (e \in dropped) => n = 0
              /\ (e \notin Elems(metrics_buffer) /\ e \notin dropped) => n = 1
    /\ thr[Shutdown].pc = "drain" =>
          \A e \in 1 .. thr[Shutdown].batch[Len(thr[Shutdown].batch)] :
              e \notin dropped => Extractions(e) = 1

\* The drain holds its batch while an asynchronous batch extracted earlier
\* is still pending and a request thread is inside add_metric.
C12_Witness ==
    /\ thr[Shutdown].pc = "drain"
    /\ \/ executor # << >>
       \/ \E w \in Workers : worker[w].pc = "put"
       \/ \E t \in Producers : thr[t].pc = "submit"
    /\ \E t \in Producers : thr[t].pc \in {"append", "flush", "pop"}

\* The asynchronous flushes triggered so far that found events, and the
\* batches they extracted: a request thread on its way through _flush_async,
\* a batch queued in the pool, a batch taken by a worker.
FlushesTriggered ==
    Cardinality({t \in Producers : thr[t].pc \in {"flush", "pop", "submit"}})
    + Len(executor) + (next_task - 1)

BatchesSubmitted == Len(executor) + (next_task - 1)

\* The events 1 .. FLUSH_SIZE in order.
FirstBatch == [i \in 1 .. FLUSH_SIZE |-> i]

\* C13 as stated: from an empty buffer, within the flush interval, the
\* enqueue of exactly FLUSH_SIZE events triggers exactly one asynchronous
\* flush, on the enqueue that is the FLUSH_SIZE-th.
C13_SizeTriggerAnyCapacity ==
    /\ accepted < FLUSH_SIZE => FlushesTriggered = 0
    /\ accepted = FLUSH_SIZE => FlushesTriggered = 1

\* C13 (amended): for a publisher whose max_buffer_size is at least
\* FLUSH_SIZE, from an empty buffer and within the flush interval, no
\* enqueue before the FLUSH_SIZE-th triggers a flush, and the FLUSH_SIZE-th
\* triggers exactly one: one batch, holding those FLUSH_SIZE events, is
\* submitted to the pool, the time condition being false throughout.
C13_SizeTrigger ==
    max_buffer_size >= FLUSH_SIZE =>
        /\ since_flush <= FLUSH_INTERVAL
        /\ accepted < FLUSH_SIZE =>
              (FlushesTriggered = 0 /\ Len(metrics_buffer) = accepted)
        /\ accepted = FLUSH_SIZE =>
              /\ FlushesTriggered = 1
              /\ BatchesSubmitted <= 1
              /\ \A t \in Producers :
                    thr[t].pc = "submit" => thr[t].batch = FirstBatch
              /\ executor # << >> => executor = << FirstBatch >>
              /\ \A w \in Workers :
                    worker[w].pc # "idle" => worker[w].batch = FirstBatch
              /\ BatchesSubmitted = 1 => metrics_buffer = << >>

\* Exactly FLUSH_SIZE events were enqueued and the one batch holding them
\* is queued in the pool, the clock still within the interval.
C13_Witness ==
    /\ max_buffer_size >= FLUSH_SIZE
    /\ accepted = FLUSH_SIZE
    /\ ProducersIdle
    /\ executor = << FirstBatch >>
    /\ since_flush = FLUSH_INTERVAL

\* C14: once the buffer holds at least one event and more than
\* FLUSH_INTERVAL seconds have passed since the last flush, an asynchronous
\* flush eventually occurs (last_flush is set anew), or at least the buffer
\* is emptied, however few events are buffered.
C14_TimeTrigger ==
    (metrics_buffer # << >> /\ since_flush > FLUSH_INTERVAL)
        ~> (since_flush <= FLUSH_INTERVAL \/ metrics_buffer = << >>)

(***************************************************************************)
(* Properties of both components (checked under SpecSink).                 *)
(***************************************************************************)
\* The result invoke() returns for execution r when its sink call succeeds:
\* the stored response on a hit, the responder's answer on a miss.
ExpectedResult(r) ==
    IF obs[r].fetched = "found"
    THEN [response |-> rrStore[frame[r].cache_request_id].response_text,
          cached |-> TRUE, similarity |-> frame[r].similarity]
    ELSE [response |-> obs[r].agentAnswer[1],
          cached |-> FALSE, similarity |-> frame[r].similarity]

\* C15: a sink call that raises is neither propagated nor retried.  No
\* execution of invoke() ends with the exception of its put_metric_data
\* call, and one that has returned, whatever the outcome of that call, made
\* one sink call and returned the result it returns when the call succeeds;
\* no event is carried by more than one publisher sink call, and after a
\* sink call that raised (from _publish_batch or from flush_remaining) the
\* events it carried are in no buffer and no pending batch; and a pool
\* worker past its sink call still has its task to complete.
C15_PublishFailureDiscarded ==
    /\ \A r \in Requests :
          /\ obs[r].fault # "put_metric_data"
          /\ Returned(r) =>
                /\ frame[r].result = ExpectedResult(r)
                /\ obs[r].sinkCalls = 1
    /\ \A e \in DOMAIN sink : sink[e] <= 1
    /\ \A e \in raised :
          /\ sink[e] = 1
          /\ Extractions(e) = 1
          /\ e \notin Elems(metrics_buffer)
    /\ \A w \in Workers :
          worker[w].pc = "complete" => worker[w].task_id \in tasks

\* Two or more sink calls of one event each were made, one of them by a
\* pool worker for a time-triggered batch, and the latest raised; every
\* thread is back idle and the worker's task is completed.
C15_Witness ==
    /\ accepted >= 2
    /\ raised = {accepted}
    /\ \A e \in 1 .. accepted : sink[e] = 1
    /\ next_task = 2 /\ tasks = {}
    /\ largest_call = 1
    /\ \A t \in Threads : thr[t].pc = "idle"
    /\ \A w \in Workers : worker[w].pc = "idle"

(***************************************************************************)
(* Properties of the publisher's lock, drain and task bookkeeping (checked *)
(* under SpecPub).                                                         *)
(***************************************************************************)
\* C22: flush_remaining is idempotent.  A call that finds the buffer empty
\* makes no sink call and changes no publisher state: taking the lock
\* changes nothing else, and the return on an empty buffer releases it and
\* leaves buffer, counters, pool and sink as they were.  A call that finds
\* events leaves the buffer empty, so a second call right after it is such a
\* call, and the two deliver what the first alone delivers; the drain never
\* calls the sink with an empty batch.
C22_DrainIdempotent ==
    [][ /\ thr[Shutdown].pc = "drain" => thr[Shutdown].batch # << >>
        /\ (thr[Shutdown].pc = "idle" /\ thr'[Shutdown].pc = "take")
              => UNCHANGED <<max_buffer_size, since_flush, bufVars, poolVars,
                             sinkVars>>
        /\ (thr[Shutdown].pc = "take" /\ thr'[Shutdown].pc # "take")
              => /\ metrics_buffer' = << >>
                 /\ buffer_lock' = {}
                 /\ metrics_buffer = << >>
                       => /\ thr'[Shutdown] = IdleThread
                          /\ \A t \in Producers : thr'[t] = thr[t]
                          /\ UNCHANGED <<max_buffer_size, since_flush,
                                         bufVars, poolVars, sinkVars>>
      ]_vars

\* A second call of flush_remaining is inside the lock, after a first call
\* delivered every accepted event, none through the pool.
C22_Witness ==
    /\ thr[Shutdown].pc = "take"
    /\ metrics_buffer = << >>
    /\ accepted = Workload
    /\ next_task = 1
    /\ executor = << >>
    /\ \A t \in Producers : thr[t].pc = "idle"
    /\ \A e \in DOMAIN sink : sink[e] = 1

\* C24: buffer_lock is held only for the append and for the extraction of a
\* batch: a thread holds it exactly while it is at the append of add_metric,
\* at the pops of _flush_async or at the copy-and-clear of flush_remaining,
\* never while it submits to the pool or calls the sink; the pool's workers
\* (_publish_batch) never take it.
C24_LockOnlyForBufferAccess ==
    /\ Cardinality(buffer_lock) <= 1
    /\ \A t \in Threads :
          t \in buffer_lock <=> thr[t].pc \in {"append", "pop", "take"}
    /\ \A t \in Threads :
          thr[t].pc \in {"flush", "submit", "drain"} => t \notin buffer_lock
    /\ (\E w \in Workers : worker[w].pc = "put")
          => \A t \in buffer_lock : thr[t].pc \in {"append", "pop", "take"}

\* A request thread is inside its append, holding the lock, while a pool
\* worker and the drain are each at their sink call.
C24_Witness ==
    /\ \E t \in Producers : thr[t].pc = "append" /\ buffer_lock = {t}
    /\ \E w \in Workers : worker[w].pc = "put"
    /\ thr[Shutdown].pc = "drain"

\* The tasks of the publish calls that are running.
RunningTasks ==
    {worker[w].task_id : w \in {v \in Workers : worker[v].pc # "idle"}}

C25_EventuallyCompleted ==
    \A id \in 1 .. MaxCalls : (id \in tasks) ~> (id \notin tasks)

\* C31: the size threshold FLUSH_SIZE is fixed independently of the
\* configured capacity: in a publisher constructed with max_buffer_size
\* below FLUSH_SIZE the buffer length never reaches FLUSH_SIZE, so no
\* add_metric triggers a flush by size: every flush an add_metric triggers
\* is one whose time condition held.  An event leaves the buffer only by
\* overflow eviction, as the oldest, on an append; or in the batch of a
\* flush triggered by time; or in the batch of flush_remaining.
C31_SizeTriggerNeverFires ==
    [][ max_buffer_size < FLUSH_SIZE =>
          /\ Len(metrics_buffer) < FLUSH_SIZE
          /\ Len(metrics_buffer') < FLUSH_SIZE
          /\ \A t \in Producers :
                (thr[t].pc = "append" /\ thr'[t].pc = "flush")
                   => since_flush > FLUSH_INTERVAL
          /\ \A e \in Elems(metrics_buffer) \ Elems(metrics_buffer') :
                \/ /\ e = metrics_buffer[1]
                   /\ e \in dropped' \ dropped
                   /\ \E t \in Producers : thr[t].pc = "append"
                                            /\ thr'[t].pc # "append"
                \/ \E t \in Producers :
                      /\ thr[t].pc = "pop" /\ thr'[t].pc = "submit"
                      /\ e \in Elems(thr'[t].batch)
                \/ /\ thr[Shutdown].pc = "take"
                   /\ thr'[Shutdown].pc = "drain"
                   /\ e \in Elems(thr'[Shutdown].batch)
      ]_vars

\* In a publisher of capacity below FLUSH_SIZE the buffer overflowed and
\* evicted the oldest event, and a flush by time has queued a batch in the
\* pool.
C31_Witness ==
    /\ max_buffer_size < FLUSH_SIZE
    /\ dropped # {}
    /\ executor # << >>
    /\ accepted = Workload

(***************************************************************************)
(* Properties of a single-threaded feed (checked under SpecSerial).        *)
(***************************************************************************)
RECURSIVE Flatten(_)
Flatten(batches) ==
    IF batches = << >> THEN << >>
    ELSE Head(batches) \o Flatten(Tail(batches))

\* The events not yet handed to a worker, in the order they will be: the
\* queued batches, the batch just extracted, the buffer.
Pending == Flatten(executor) \o thr[MainThread].batch \o metrics_buffer

\* seq holds the consecutive events that end with event last.
EndsAt(seq, last) ==
    seq = [i \in 1 .. Len(seq) |-> last - Len(seq) + i]

\* C30: in a single-threaded sequence of add_metric calls on a publisher
\* whose max_buffer_size is at least FLUSH_SIZE, the buffer holds fewer than
\* FLUSH_SIZE events whenever add_metric has returned, so overflow drops no
\* event, and every accepted event is either still buffered or extracted
\* into exactly one batch, the batches taking the events oldest first, in
\* enqueue order.
C30_SerialBufferBelowFlushSize ==
    max_buffer_size >= FLUSH_SIZE =>
        /\ thr[MainThread].pc = "idle" => Len(metrics_buffer) < FLUSH_SIZE
        /\ Len(metrics_buffer) <= FLUSH_SIZE
        /\ dropped = {}
        /\ \A e \in 1 .. accepted :
              IF e \in Elems(metrics_buffer) THEN Extractions(e) = 0
              ELSE Extractions(e) = 1
        /\ EndsAt(Pending, accepted)
        /\ \A i \in 1 .. Len(executor) :
              /\ executor[i] # << >>
              /\ Len(executor[i]) <= BATCH_LIMIT
        /\ \A w \in Workers :
              worker[w].pc # "idle" =>
                 /\ EndsAt(worker[w].batch,
                           worker[w].batch[Len(worker[w].batch)])
                 /\ worker[w].batch[Len(worker[w].batch)]
                       <= accepted - Len(Pending)

\* The thread made FLUSH_SIZE + SizeExtraCalls calls: the first FLUSH_SIZE
\* events are one batch, in order, waiting in the pool, and the rest is in
\* the buffer.
C30_Witness ==
    /\ max_buffer_size >= FLUSH_SIZE
    /\ accepted = Workload
    /\ thr[MainThread].pc = "idle"
    /\ executor = << FirstBatch >>
    /\ Len(metrics_buffer) = Workload - FLUSH_SIZE
    /\ \A w \in Workers : worker[w].pc = "idle"

(***************************************************************************)
(* Properties of the publisher's sink calls (checked under SpecDrain).     *)
(***************************************************************************)
\* C21: every call the publisher makes to the metrics sink, from an
\* asynchronous flush or from flush_remaining, carries at most BATCH_LIMIT
\* data points.
C21_CallsWithinBatchLimit == largest_call <= BATCH_LIMIT

Consumed(r) ==
    LET own == agent_run[r].usage
        tool == agent_run[r].tool
    IN  IF tool = << >> THEN own
        ELSE <<own[1] + tool[1][1], own[2] + tool[1][2]>>

\* C26: concurrent requests share no mutable state other than the index and
\* the store: the token counts invoke_agent returns for a request are
\* exactly those consumed for that request, whatever other requests are in
\* flight.
C26_TokensAreOwn ==
    \A r \in Requests :
        agent_run[r].pc = "done" => agent_run[r].total = Consumed(r)

\* C28: the store connection is created at most once per process:
\* GlideClient.create runs at most once under any interleaving of first
\* calls of get_cache_client, and every call returns the same client.
C28_ClientCreatedOnce ==
    /\ created <= 1
    /\ \A q, r \in Requests :
          (getter[q].pc = "done" /\ getter[r].pc = "done")
             => getter[q].client = getter[r].client

====
